---- MODULE Spec2Model ----
(***************************************************************************)
(* Model of selfdrive/controls/lib/speed_limit_controller.py:              *)
(* SpeedLimitResolver (fusion of the car_state and map_data speed limits)  *)
(* and SpeedLimitController (smoothing, four-state machine, solution and   *)
(* events).                                                                *)
(*                                                                         *)
(* Quantities are exact scaled integers:                                   *)
(*   speed          0.1 m/s        (20.0 m/s = 200)                        *)
(*   acceleration   0.1 m/s^2      (-1.2 m/s^2 = -12)                      *)
(*   sec_since_boot 1 s                                                    *)
(*   GPS timestamps 1 ms (as lastGpsTimestamp), fix age 1 ms               *)
(*   distance       0.0001 m  (= 0.1 m/s * 1 ms;  200 m = 2000000)         *)
(*   percent offset 1e-6, v_offset and offseted limits 1e-7 m/s            *)
(***************************************************************************)
EXTENDS Integers, Sequences, FiniteSets, TLC

\* ------------------------------------------------------------ constants
PARAMS_UPDATE_PERIOD == 2
WAIT_TIME_LIMIT_RISE == 2
\* _SPEED_OFFSET_TH = -1. m/s, in units of 1e-7 m/s
SPEED_OFFSET_TH == -10000000
\* _LIMIT_ADAPT_ACC = -1.2 m/s^2, in units of 0.1 m/s^2
LIMIT_ADAPT_ACC == -12
\* _MAX_MAP_DATA_AGE = 10.0 s, in ms
MAX_MAP_DATA_AGE == 10000
\* _LIMIT_PERC_OFFSET_V = [0.1, 0.05, 0.038], in units of 1e-6
LIMIT_PERC_OFFSET_V == <<100000, 50000, 38000>>
\* _LIMIT_PERC_OFFSET_BP = [13.9, 27.8, 36.1] m/s, in units of 0.1 m/s
LIMIT_PERC_OFFSET_BP == <<139, 278, 361>>

\* SpeedLimitControlState (ordered enum)
inactive == 0
tempInactive == 1
adapting == 2
active == 3
SpeedLimitControlState == {inactive, tempInactive, adapting, active}

\* SpeedLimitResolver.Source
none == 0
car_state == 1
map_data == 2
Source == {none, car_state, map_data}

\* SpeedLimitResolver.Policy
car_state_only == 0
map_data_only == 1
car_state_priority == 2
map_data_priority == 3
combined == 4
Policy == {car_state_only, map_data_only, car_state_priority, map_data_priority, combined}

\* scale factors between the units above
OffsetScale == 1000000
MsPerSec == 1000

\* ------------------------------------------------------------ bounds
\* sec_since_boot() never exceeds MaxTime in the model
MaxTime == 3
\* number of writes to the persistent parameter store by other processes
MaxParamWrites == 1
\* time.time() at boot, in s
BootEpoch == 100

Max(a, b) == IF a >= b THEN a ELSE b
Min(a, b) == IF a <= b THEN a ELSE b

\* ------------------------------------------------------------ resolver
\* time.time() when sec_since_boot() reads t, in ms
WallTimeMs(t) == (BootEpoch + t) * MsPerSec

\* gps_fix_age = time.time() - map_data.lastGpsTimestamp * 1e-3, in ms
GpsFixAge(wall_ms, lastGpsTimestamp) == wall_ms - lastGpsTimestamp

\* adapt_time = (next_speed_limit - v_ego) / _LIMIT_ADAPT_ACC, in units of 1/12 s
AdaptTime(next_speed_limit, v_ego) == ((v_ego - next_speed_limit) * 12) \div (0 - LIMIT_ADAPT_ACC)

\* AdaptDistance without the braking term: the distance covered at v_ego during
\* adapt_time
AdaptDistanceNoBrakingTerm(next_speed_limit, v_ego) ==
  LET adapt_time == AdaptTime(next_speed_limit, v_ego)
  IN  24 * v_ego * adapt_time

\* adapt_distance = v_ego * adapt_time + 0.5 * _LIMIT_ADAPT_ACC * adapt_time**2,
\* in units of 1/2880 m  (0.1 m/s * 1/12 s = 24/2880 m; 0.5 * 0.1 m/s^2 * 1/144 s^2 = 1/2880 m)
AdaptDistance(next_speed_limit, v_ego) ==
  LET adapt_time == AdaptTime(next_speed_limit, v_ego)
  IN  24 * v_ego * adapt_time + LIMIT_ADAPT_ACC * adapt_time * adapt_time

\* distance_to_speed_limit_ahead <= adapt_distance, the left side in 1e-4 m, the
\* right side in 1/2880 m: d/10000 <= a/2880  <=>  36*d <= 125*a
CloseEnough(distance_to_speed_limit_ahead, adapt_distance) ==
  36 * distance_to_speed_limit_ahead <= 125 * adapt_distance

\* _get_from_car_state: the car_state candidate
GetFromCarState(sm) == [limit |-> sm.carState.speedLimit, distance |-> 0]

\* GetFromMapData that keeps providing a tracked ahead limit before it looks at the
\* age of the fix
GetFromMapDataAgeAfterTracking(sm, v_ego, current_speed_limit, next_prev, wall_ms) ==
  IF ~sm.mapSeen
  THEN [limit |-> 0, distance |-> 0, next_prev |-> next_prev]
  ELSE
    LET m == sm.liveMapData
        speed_limit == IF m.speedLimitValid THEN m.speedLimit ELSE 0
        next_speed_limit == IF m.speedLimitAheadValid THEN m.speedLimitAhead ELSE 0
        gps_fix_age == GpsFixAge(wall_ms, m.lastGpsTimestamp)
        distance_since_fix == v_ego * gps_fix_age
        distance_to_speed_limit_ahead == Max(0, m.speedLimitAheadDistance - distance_since_fix)
        adapt_distance == AdaptDistance(next_speed_limit, v_ego)
    IN  IF next_speed_limit # 0 /\ v_ego > 0 /\ next_speed_limit <= current_speed_limit
           /\ next_speed_limit = next_prev
        THEN [limit |-> next_speed_limit, distance |-> distance_to_speed_limit_ahead,
              next_prev |-> next_prev]
        ELSE IF gps_fix_age > MAX_MAP_DATA_AGE
        THEN [limit |-> 0, distance |-> 0, next_prev |-> next_prev]
        ELSE IF next_speed_limit = 0 \/ v_ego <= 0 \/ next_speed_limit > current_speed_limit
        THEN [limit |-> speed_limit, distance |-> 0, next_prev |-> 0]
        ELSE IF CloseEnough(distance_to_speed_limit_ahead, adapt_distance)
        THEN [limit |-> next_speed_limit, distance |-> distance_to_speed_limit_ahead,
              next_prev |-> next_speed_limit]
        ELSE [limit |-> speed_limit, distance |-> 0, next_prev |-> 0]

\* GetFromMapData that compares the distance with the adaptation distance in every
\* cycle, tracked limit or not
GetFromMapDataNoSticky(sm, v_ego, current_speed_limit, next_prev, wall_ms) ==
  IF ~sm.mapSeen
  THEN [limit |-> 0, distance |-> 0, next_prev |-> next_prev]
  ELSE
    LET m == sm.liveMapData
        speed_limit == IF m.speedLimitValid THEN m.speedLimit ELSE 0
        next_speed_limit == IF m.speedLimitAheadValid THEN m.speedLimitAhead ELSE 0
        gps_fix_age == GpsFixAge(wall_ms, m.lastGpsTimestamp)
        distance_since_fix == v_ego * gps_fix_age
        distance_to_speed_limit_ahead == Max(0, m.speedLimitAheadDistance - distance_since_fix)
        adapt_distance == AdaptDistance(next_speed_limit, v_ego)
    IN  IF gps_fix_age > MAX_MAP_DATA_AGE
        THEN [limit |-> 0, distance |-> 0, next_prev |-> next_prev]
        ELSE IF next_speed_limit = 0 \/ v_ego <= 0 \/ next_speed_limit > current_speed_limit
        THEN [limit |-> speed_limit, distance |-> 0, next_prev |-> 0]
        ELSE IF CloseEnough(distance_to_speed_limit_ahead, adapt_distance)
        THEN [limit |-> next_speed_limit, distance |-> distance_to_speed_limit_ahead,
              next_prev |-> next_speed_limit]
        ELSE [limit |-> speed_limit, distance |-> 0, next_prev |-> 0]

\* GetFromMapData without the lower bound of 0 on the corrected distance
GetFromMapDataNoClamp(sm, v_ego, current_speed_limit, next_prev, wall_ms) ==
  IF ~sm.mapSeen
  THEN [limit |-> 0, distance |-> 0, next_prev |-> next_prev]
  ELSE
    LET m == sm.liveMapData
        speed_limit == IF m.speedLimitValid THEN m.speedLimit ELSE 0
        next_speed_limit == IF m.speedLimitAheadValid THEN m.speedLimitAhead ELSE 0
        gps_fix_age == GpsFixAge(wall_ms, m.lastGpsTimestamp)
        distance_since_fix == v_ego * gps_fix_age
        distance_to_speed_limit_ahead == m.speedLimitAheadDistance - distance_since_fix
        adapt_distance == AdaptDistance(next_speed_limit, v_ego)
    IN  IF gps_fix_age > MAX_MAP_DATA_AGE
        THEN [limit |-> 0, distance |-> 0, next_prev |-> next_prev]
        ELSE IF next_speed_limit = 0 \/ v_ego <= 0 \/ next_speed_limit > current_speed_limit
        THEN [limit |-> speed_limit, distance |-> 0, next_prev |-> 0]
        ELSE IF next_speed_limit = next_prev
        THEN [limit |-> next_speed_limit, distance |-> distance_to_speed_limit_ahead,
              next_prev |-> next_prev]
        ELSE IF CloseEnough(distance_to_speed_limit_ahead, adapt_distance)
        THEN [limit |-> next_speed_limit, distance |-> distance_to_speed_limit_ahead,
              next_prev |-> next_speed_limit]
        ELSE [limit |-> speed_limit, distance |-> 0, next_prev |-> 0]

\* _get_from_map_data: the map_data candidate and the new value of
\* _next_speed_limit_prev
GetFromMapData(sm, v_ego, current_speed_limit, next_prev, wall_ms) ==
  IF ~sm.mapSeen
  THEN [limit |-> 0, distance |-> 0, next_prev |-> next_prev]
  ELSE
    LET m == sm.liveMapData
        speed_limit == IF m.speedLimitValid THEN m.speedLimit ELSE 0
        next_speed_limit == IF m.speedLimitAheadValid THEN m.speedLimitAhead ELSE 0
        gps_fix_age == GpsFixAge(wall_ms, m.lastGpsTimestamp)
        distance_since_fix == v_ego * gps_fix_age
        distance_to_speed_limit_ahead == Max(0, m.speedLimitAheadDistance - distance_since_fix)
        adapt_distance == AdaptDistance(next_speed_limit, v_ego)
    IN  IF gps_fix_age > MAX_MAP_DATA_AGE
        THEN [limit |-> 0, distance |-> 0, next_prev |-> next_prev]
        ELSE IF next_speed_limit = 0 \/ v_ego <= 0 \/ next_speed_limit > current_speed_limit
        THEN [limit |-> speed_limit, distance |-> 0, next_prev |-> 0]
        ELSE IF next_speed_limit = next_prev
        THEN [limit |-> next_speed_limit, distance |-> distance_to_speed_limit_ahead,
              next_prev |-> next_prev]
        ELSE IF CloseEnough(distance_to_speed_limit_ahead, adapt_distance)
        THEN [limit |-> next_speed_limit, distance |-> distance_to_speed_limit_ahead,
              next_prev |-> next_speed_limit]
        ELSE [limit |-> speed_limit, distance |-> 0, next_prev |-> 0]

\* the candidate of one source, as an element of limits/distances/sources
Candidate(src, limits, distances) ==
  [limit |-> limits[src], distance |-> distances[src], source |-> src]

\* np.amax(limits) of a non-empty sequence of candidates
RECURSIVE AMax(_)
AMax(cs) ==
  IF Len(cs) = 1 THEN cs[1].limit ELSE Max(cs[1].limit, AMax(Tail(cs)))

\* np.argmin(limits): the first index of the smallest limit
ArgMin(cs) ==
  CHOOSE i \in 1..Len(cs) :
    /\ \A j \in 1..Len(cs) : cs[i].limit <= cs[j].limit
    /\ \A j \in 1..(i - 1) : cs[j].limit > cs[i].limit

IsPositive(c) == c.limit > 0

\* Consolidate without the mask of the values that are 0
ConsolidateNoMask(pol, limits, distances) ==
  LET car == Candidate(car_state, limits, distances)
      map == Candidate(map_data, limits, distances)
      s1 == IF pol \in {car_state_only, car_state_priority, combined} THEN <<car>> ELSE <<>>
      s2 == IF pol \in {map_data_only, map_data_priority, combined} THEN s1 \o <<map>> ELSE s1
      s3 == IF AMax(s2) = 0
            THEN IF pol = car_state_priority THEN s2 \o <<map>>
                 ELSE IF pol = map_data_priority THEN s2 \o <<car>>
                 ELSE s2
            ELSE s2
      min_idx == ArgMin(s3)
  IN  [speed_limit |-> s3[min_idx].limit,
       distance |-> s3[min_idx].distance,
       source |-> s3[min_idx].source]

\* Consolidate that takes the first of the values that are not 0
ConsolidateFirst(pol, limits, distances) ==
  LET car == Candidate(car_state, limits, distances)
      map == Candidate(map_data, limits, distances)
      s1 == IF pol \in {car_state_only, car_state_priority, combined} THEN <<car>> ELSE <<>>
      s2 == IF pol \in {map_data_only, map_data_priority, combined} THEN s1 \o <<map>> ELSE s1
      s3 == IF AMax(s2) = 0
            THEN IF pol = car_state_priority THEN s2 \o <<map>>
                 ELSE IF pol = map_data_priority THEN s2 \o <<car>>
                 ELSE s2
            ELSE s2
      masked == SelectSeq(s3, IsPositive)
  IN  IF Len(masked) > 0
      THEN [speed_limit |-> masked[1].limit,
            distance |-> masked[1].distance,
            source |-> masked[1].source]
      ELSE [speed_limit |-> 0, distance |-> 0, source |-> none]

\* Consolidate that adds the secondary source of a priority policy whatever the
\* primary source gives
ConsolidateAlwaysFallback(pol, limits, distances) ==
  LET car == Candidate(car_state, limits, distances)
      map == Candidate(map_data, limits, distances)
      s1 == IF pol \in {car_state_only, car_state_priority, combined} THEN <<car>> ELSE <<>>
      s2 == IF pol \in {map_data_only, map_data_priority, combined} THEN s1 \o <<map>> ELSE s1
      s3 == IF pol = car_state_priority THEN s2 \o <<map>>
            ELSE IF pol = map_data_priority THEN s2 \o <<car>>
            ELSE s2
      masked == SelectSeq(s3, IsPositive)
  IN  IF Len(masked) > 0
      THEN LET min_idx == ArgMin(masked)
           IN  [speed_limit |-> masked[min_idx].limit,
                distance |-> masked[min_idx].distance,
                source |-> masked[min_idx].source]
      ELSE [speed_limit |-> 0, distance |-> 0, source |-> none]

\* _consolidate: from the per-source solutions to (speed_limit, distance, source)
Consolidate(pol, limits, distances) ==
  LET car == Candidate(car_state, limits, distances)
      map == Candidate(map_data, limits, distances)
      s1 == IF pol \in {car_state_only, car_state_priority, combined} THEN <<car>> ELSE <<>>
      s2 == IF pol \in {map_data_only, map_data_priority, combined} THEN s1 \o <<map>> ELSE s1
      s3 == IF AMax(s2) = 0
            THEN IF pol = car_state_priority THEN s2 \o <<map>>
                 ELSE IF pol = map_data_priority THEN s2 \o <<car>>
                 ELSE s2
            ELSE s2
      masked == SelectSeq(s3, IsPositive)
  IN  IF Len(masked) > 0
      THEN LET min_idx == ArgMin(masked)
           IN  [speed_limit |-> masked[min_idx].limit,
                distance |-> masked[min_idx].distance,
                source |-> masked[min_idx].source]
      ELSE [speed_limit |-> 0, distance |-> 0, source |-> none]

\* resolve(v_ego, current_speed_limit, sm): the resolver's fields after the call
Resolve(pol, v_ego, current_speed_limit, sm, next_prev, wall_ms) ==
  LET c == GetFromCarState(sm)
      m == GetFromMapData(sm, v_ego, current_speed_limit, next_prev, wall_ms)
      limits == [s \in {car_state, map_data} |-> IF s = car_state THEN c.limit ELSE m.limit]
      distances == [s \in {car_state, map_data} |->
                      IF s = car_state THEN c.distance ELSE m.distance]
      r == Consolidate(pol, limits, distances)
  IN  [limit_solutions |-> limits, distance_solutions |-> distances,
       next_speed_limit_prev |-> m.next_prev,
       speed_limit |-> r.speed_limit, distance |-> r.distance, source |-> r.source]

\* ------------------------------------------------------------ controller
\* common.numpy_fast.interp(x, xp, fp) over a three-point table: piecewise linear,
\* flat beyond the table ends; the result is rounded down to 1e-6
Interp(x, xp, fp) ==
  IF x <= xp[1] THEN fp[1]
  ELSE IF x > xp[3] THEN fp[3]
  ELSE LET hi == IF x <= xp[2] THEN 2 ELSE 3
           low == hi - 1
       IN  ((x - xp[low]) * (fp[hi] - fp[low])) \div (xp[hi] - xp[low]) + fp[low]

\* speed_limit_offset, in units of 1e-7 m/s
SpeedLimitOffset(c) ==
  IF c.offset_enabled
  THEN Interp(c.speed_limit, LIMIT_PERC_OFFSET_BP, LIMIT_PERC_OFFSET_V) * c.speed_limit
  ELSE 0

\* speed_limit_offseted, in units of 1e-7 m/s
SpeedLimitOffseted(c) == c.speed_limit * OffsetScale + SpeedLimitOffset(c)

\* is_active
IsActive(c) == c.state > tempInactive

\* the v_limit accessor, in units of 1e-7 m/s (_v_limit is <<>> until the first update)
VLimit(c) == IF IsActive(c) THEN c.v_limit[1] ELSE c.v_cruise_setpoint * OffsetScale

\* the state setter without the reset of the previous displayed limit on the way
\* into tempInactive
StateSetterNoTrackerReset(c, value) ==
  IF value # c.state /\ value = tempInactive
  THEN [c EXCEPT !.speed_limit = c.speed_limit_set,
                 !.distance = c.distance_set,
                 !.state = value]
  ELSE [c EXCEPT !.state = value]

\* the state setter
StateSetter(c, value) ==
  IF value # c.state /\ value = tempInactive
  THEN [c EXCEPT !.speed_limit = c.speed_limit_set,
                 !.distance = c.distance_set,
                 !.speed_limit_prev = c.speed_limit_set,
                 !.state = value]
  ELSE [c EXCEPT !.state = value]

\* _update_params, with `time` the value of sec_since_boot() and `store` the Params
UpdateParams(c, time, store) ==
  IF time > c.last_params_update + PARAMS_UPDATE_PERIOD
  THEN [c EXCEPT !.is_enabled = store["SpeedLimitControl"],
                 !.delay_increase = store["SpeedLimitDelayIncrease"],
                 !.offset_enabled = store["SpeedLimitPercOffset"],
                 !.last_params_update = time]
  ELSE c

\* UpdateLimit with the delayed increase applied when the waiting time is reached,
\* not when it is exceeded
UpdateLimitEarlyRise(c, time) ==
  LET ts == IF c.speed_limit_set # c.speed_limit_set_prev
            THEN time ELSE c.last_speed_limit_set_change_ts
      c1 == [c EXCEPT !.last_speed_limit_set_change_ts = ts, !.distance = 0]
  IN  IF c1.speed_limit = c1.speed_limit_set
      THEN [c1 EXCEPT !.distance = c1.distance_set]
      ELSE IF \/ c1.speed_limit = 0
              \/ c1.speed_limit_set < c1.speed_limit
              \/ ~c1.delay_increase
              \/ time >= c1.last_speed_limit_set_change_ts + WAIT_TIME_LIMIT_RISE
      THEN [c1 EXCEPT !.speed_limit = c1.speed_limit_set, !.distance = c1.distance_set]
      ELSE c1

\* UpdateLimit that keeps a delayed increase waiting whatever the time is
UpdateLimitNeverRise(c, time) ==
  LET ts == IF c.speed_limit_set # c.speed_limit_set_prev
            THEN time ELSE c.last_speed_limit_set_change_ts
      c1 == [c EXCEPT !.last_speed_limit_set_change_ts = ts, !.distance = 0]
  IN  IF c1.speed_limit = c1.speed_limit_set
      THEN [c1 EXCEPT !.distance = c1.distance_set]
      ELSE IF \/ c1.speed_limit = 0
              \/ c1.speed_limit_set < c1.speed_limit
              \/ ~c1.delay_increase
      THEN [c1 EXCEPT !.speed_limit = c1.speed_limit_set, !.distance = c1.distance_set]
      ELSE c1

\* _update_calculations, lines 289-309: change timestamp, displayed limit and distance
UpdateLimit(c, time) ==
  LET ts == IF c.speed_limit_set # c.speed_limit_set_prev
            THEN time ELSE c.last_speed_limit_set_change_ts
      c1 == [c EXCEPT !.last_speed_limit_set_change_ts = ts, !.distance = 0]
  IN  IF c1.speed_limit = c1.speed_limit_set
      THEN [c1 EXCEPT !.distance = c1.distance_set]
      ELSE IF \/ c1.speed_limit = 0
              \/ c1.speed_limit_set < c1.speed_limit
              \/ ~c1.delay_increase
              \/ time > c1.last_speed_limit_set_change_ts + WAIT_TIME_LIMIT_RISE
      THEN [c1 EXCEPT !.speed_limit = c1.speed_limit_set, !.distance = c1.distance_set]
      ELSE c1

\* _update_calculations, lines 311-320: velocity offset and change tracking
UpdateTracking(c) ==
  [c EXCEPT !.v_offset = SpeedLimitOffseted(c) - c.v_ego * OffsetScale,
            !.speed_limit_changed = (c.speed_limit # c.speed_limit_prev),
            !.v_cruise_setpoint_changed = (c.v_cruise_setpoint # c.v_cruise_setpoint_prev),
            !.speed_limit_set_change = c.speed_limit_set - c.speed_limit_set_prev,
            !.speed_limit_prev = c.speed_limit,
            !.v_cruise_setpoint_prev = c.v_cruise_setpoint,
            !.speed_limit_set_prev = c.speed_limit_set]

\* _update_calculations
UpdateCalculations(c, time) == UpdateTracking(UpdateLimit(c, time))

\* StateTransition without the test of a 0 displayed limit
StateTransitionNoZeroCheck(c) ==
  LET c1 == [c EXCEPT !.state_prev = c.state]
  IN  IF ~c1.op_enabled \/ ~c1.is_enabled
      THEN StateSetter(c1, inactive)
      ELSE IF c1.state = inactive
      THEN IF c1.v_offset < SPEED_OFFSET_TH
           THEN StateSetter(c1, adapting)
           ELSE StateSetter(c1, active)
      ELSE IF c1.state = tempInactive
      THEN IF c1.speed_limit_changed THEN StateSetter(c1, inactive) ELSE c1
      ELSE IF c1.state = adapting
      THEN IF c1.v_offset >= SPEED_OFFSET_TH THEN StateSetter(c1, active) ELSE c1
      ELSE IF c1.state = active
      THEN IF c1.v_offset < SPEED_OFFSET_TH THEN StateSetter(c1, adapting) ELSE c1
      ELSE c1

\* StateTransition leaving adapting only when the offset is over the threshold,
\* not when it reaches it
StateTransitionStrictThreshold(c) ==
  LET c1 == [c EXCEPT !.state_prev = c.state]
  IN  IF ~c1.op_enabled \/ ~c1.is_enabled \/ c1.speed_limit = 0
      THEN StateSetter(c1, inactive)
      ELSE IF c1.state = inactive
      THEN IF c1.v_offset < SPEED_OFFSET_TH
           THEN StateSetter(c1, adapting)
           ELSE StateSetter(c1, active)
      ELSE IF c1.state = tempInactive
      THEN IF c1.speed_limit_changed THEN StateSetter(c1, inactive) ELSE c1
      ELSE IF c1.state = adapting
      THEN IF c1.v_offset > SPEED_OFFSET_TH THEN StateSetter(c1, active) ELSE c1
      ELSE IF c1.state = active
      THEN IF c1.v_offset < SPEED_OFFSET_TH THEN StateSetter(c1, adapting) ELSE c1
      ELSE c1

\* StateTransition leaving tempInactive when the raw limit changed, not the
\* displayed one
StateTransitionLeaveOnRawChange(c) ==
  LET c1 == [c EXCEPT !.state_prev = c.state]
  IN  IF ~c1.op_enabled \/ ~c1.is_enabled \/ c1.speed_limit = 0
      THEN StateSetter(c1, inactive)
      ELSE IF c1.state = inactive
      THEN IF c1.v_offset < SPEED_OFFSET_TH
           THEN StateSetter(c1, adapting)
           ELSE StateSetter(c1, active)
      ELSE IF c1.state = tempInactive
      THEN IF c1.speed_limit_set_change # 0 THEN StateSetter(c1, inactive) ELSE c1
      ELSE IF c1.state = adapting
      THEN IF c1.v_offset >= SPEED_OFFSET_TH THEN StateSetter(c1, active) ELSE c1
      ELSE IF c1.state = active
      THEN IF c1.v_offset < SPEED_OFFSET_TH THEN StateSetter(c1, adapting) ELSE c1
      ELSE c1

\* StateTransition that goes from inactive to active whatever the offset is, and
\* to adapting in the cycle after
StateTransitionActivateFirst(c) ==
  LET c1 == [c EXCEPT !.state_prev = c.state]
  IN  IF ~c1.op_enabled \/ ~c1.is_enabled \/ c1.speed_limit = 0
      THEN StateSetter(c1, inactive)
      ELSE IF c1.state = inactive
      THEN StateSetter(c1, active)
      ELSE IF c1.state = tempInactive
      THEN IF c1.speed_limit_changed THEN StateSetter(c1, inactive) ELSE c1
      ELSE IF c1.state = adapting
      THEN IF c1.v_offset >= SPEED_OFFSET_TH THEN StateSetter(c1, active) ELSE c1
      ELSE IF c1.state = active
      THEN IF c1.v_offset < SPEED_OFFSET_TH THEN StateSetter(c1, adapting) ELSE c1
      ELSE c1

\* StateTransition with the test of lines 332-334 (commented out in the source):
\* a change of the cruise setpoint deactivates the controller temporarily
StateTransitionCruiseChange(c) ==
  LET c1 == [c EXCEPT !.state_prev = c.state]
  IN  IF ~c1.op_enabled \/ ~c1.is_enabled \/ c1.speed_limit = 0
      THEN StateSetter(c1, inactive)
      ELSE IF c1.v_cruise_setpoint_changed
      THEN StateSetter(c1, tempInactive)
      ELSE IF c1.state = inactive
      THEN IF c1.v_offset < SPEED_OFFSET_TH
           THEN StateSetter(c1, adapting)
           ELSE StateSetter(c1, active)
      ELSE IF c1.state = tempInactive
      THEN IF c1.speed_limit_changed THEN StateSetter(c1, inactive) ELSE c1
      ELSE IF c1.state = adapting
      THEN IF c1.v_offset >= SPEED_OFFSET_TH THEN StateSetter(c1, active) ELSE c1
      ELSE IF c1.state = active
      THEN IF c1.v_offset < SPEED_OFFSET_TH THEN StateSetter(c1, adapting) ELSE c1
      ELSE c1

\* _state_transition
StateTransition(c) ==
  LET c1 == [c EXCEPT !.state_prev = c.state]
  IN  IF ~c1.op_enabled \/ ~c1.is_enabled \/ c1.speed_limit = 0
      THEN StateSetter(c1, inactive)
      ELSE IF c1.state = inactive
      THEN IF c1.v_offset < SPEED_OFFSET_TH
           THEN StateSetter(c1, adapting)
           ELSE StateSetter(c1, active)
      ELSE IF c1.state = tempInactive
      THEN IF c1.speed_limit_changed THEN StateSetter(c1, inactive) ELSE c1
      ELSE IF c1.state = adapting
      THEN IF c1.v_offset >= SPEED_OFFSET_TH THEN StateSetter(c1, active) ELSE c1
      ELSE IF c1.state = active
      THEN IF c1.v_offset < SPEED_OFFSET_TH THEN StateSetter(c1, adapting) ELSE c1
      ELSE c1

\* UpdateSolution that does not look at the accelerator
UpdateSolutionIgnoreGas(c, sm) ==
  IF c.state <= tempInactive
  THEN [c EXCEPT !.v_limit = <<c.v_cruise_setpoint * OffsetScale>>]
  ELSE IF c.state = adapting
  THEN [c EXCEPT !.v_limit = <<SpeedLimitOffseted(c)>>,
                 !.acc_limits = <<Min(LIMIT_ADAPT_ACC, c.acc_limits[1]), c.acc_limits[2]>>]
  ELSE [c EXCEPT !.v_limit = <<SpeedLimitOffseted(c)>>]

\* UpdateSolution that sets the lower bound to the adapt rate whatever the upstream
\* bound is
UpdateSolutionAdaptRateOnly(c, sm) ==
  IF c.state <= tempInactive \/ sm.carState.gasPressed
  THEN [c EXCEPT !.v_limit = <<c.v_cruise_setpoint * OffsetScale>>]
  ELSE IF c.state = adapting
  THEN [c EXCEPT !.v_limit = <<SpeedLimitOffseted(c)>>,
                 !.acc_limits = <<LIMIT_ADAPT_ACC, c.acc_limits[2]>>]
  ELSE [c EXCEPT !.v_limit = <<SpeedLimitOffseted(c)>>]

\* _update_solution; acc_limits is the caller's pair, changed in place
UpdateSolution(c, sm) ==
  IF c.state <= tempInactive \/ sm.carState.gasPressed
  THEN [c EXCEPT !.v_limit = <<c.v_cruise_setpoint * OffsetScale>>]
  ELSE IF c.state = adapting
  THEN [c EXCEPT !.v_limit = <<SpeedLimitOffseted(c)>>,
                 !.acc_limits = <<Min(LIMIT_ADAPT_ACC, c.acc_limits[1]), c.acc_limits[2]>>]
  ELSE IF c.state = active
  THEN [c EXCEPT !.v_limit = <<SpeedLimitOffseted(c)>>]
  ELSE [c EXCEPT !.v_limit = <<c.v_cruise_setpoint * OffsetScale>>]

\* UpdateEvents that looks at the change of the raw limit before the activation
UpdateEventsChangeFirst(c, sink) ==
  IF ~IsActive(c) THEN sink
  ELSE IF c.speed_limit_set_change > 0 THEN Append(sink, "speedLimitIncrease")
  ELSE IF c.speed_limit_set_change < 0 THEN Append(sink, "speedLimitDecrease")
  ELSE IF c.state_prev <= tempInactive THEN Append(sink, "speedLimitActive")
  ELSE sink

\* _update_events: the sink after the call
UpdateEvents(c, sink) ==
  IF ~IsActive(c) THEN sink
  ELSE IF c.state_prev <= tempInactive THEN Append(sink, "speedLimitActive")
  ELSE IF c.speed_limit_set_change > 0 THEN Append(sink, "speedLimitIncrease")
  ELSE IF c.speed_limit_set_change < 0 THEN Append(sink, "speedLimitDecrease")
  ELSE sink

\* ------------------------------------------------------------ state
VARIABLES
  resolver,   \* the fields of the SpeedLimitResolver
  ctrl,       \* the fields of the SpeedLimitController
  params,     \* the persistent Params store, key -> bool
  now,        \* sec_since_boot()
  writes,     \* writes made to the store so far
  op,         \* the operation executed last
  call,       \* the arguments of the last update() or resolve() call
  events      \* the events added to the sink by the last update()

vars == <<resolver, ctrl, params, now, writes, op, call, events>>

ParamKeys == {"IsMetric", "SpeedLimitControl", "SpeedLimitDelayIncrease", "SpeedLimitPercOffset"}

\* ------------------------------------------------------------ inputs
\* liveMapData before any message arrived
NoMapData ==
  [speedLimit |-> 0, speedLimitValid |-> FALSE, speedLimitAhead |-> 0,
   speedLimitAheadValid |-> FALSE, speedLimitAheadDistance |-> 0, lastGpsTimestamp |-> 0]

\* the liveMapData messages whose fix has one of the ages (ms) at time t
MapData(t, limits, aheads, dists, ages) ==
  [speedLimit : limits, speedLimitValid : BOOLEAN, speedLimitAhead : aheads,
   speedLimitAheadValid : BOOLEAN, speedLimitAheadDistance : dists,
   lastGpsTimestamp : {WallTimeMs(t) - a : a \in ages}]

\* the snapshots without and with a liveMapData message
SnapshotsNoMap(carlimits, gas) ==
  [carState : [speedLimit : carlimits, gasPressed : gas],
   mapSeen : {FALSE}, liveMapData : {NoMapData}]

SnapshotsMap(carlimits, gas, maps) ==
  [carState : [speedLimit : carlimits, gasPressed : gas],
   mapSeen : {TRUE}, liveMapData : maps]

\* inputs of the resolver on its own: speeds in 0.1 m/s, distances in 1e-4 m
\* (-100 m, 200 m, 240 m, 300 m), fix ages in ms
ResolverVEgos == {0, 300}
ResolverCurrentLimits == {0, 300}
ResolverCarLimits == {0, 250}
ResolverMapLimits == {300}
ResolverAheadLimits == {200, 250}
ResolverAheadDistances == {-1000000, 2000000, 2400000, 3000000}
ResolverFixAges == {0, 10000, 10001}

ResolverSnapshots(t) ==
  SnapshotsNoMap(ResolverCarLimits, {FALSE})
  \cup SnapshotsMap(ResolverCarLimits, {FALSE},
                    MapData(t, ResolverMapLimits, ResolverAheadLimits,
                            ResolverAheadDistances, ResolverFixAges))

\* inputs of the controller: speeds in 0.1 m/s, accelerations in 0.1 m/s^2
VEgos == {210, 300}
CarLimits == {0, 200, 300}
CruiseSetpoints == {350}
BaseAccLimits == <<-10, 10>>
AccLimits == {BaseAccLimits, <<-20, 10>>}
\* seconds between two calls of update()
CycleDts == {0, 1}

\* the map messages of the controller's cycles: limit 30 m/s, 20 m/s ahead in 200 m,
\* each valid or not, fix of this instant; and, with both limits valid, the same
\* message with a fix 10.0 s old (the car is past the 200 m) and one that reports
\* -100 m
CycleMapData(t) ==
  MapData(t, {300}, {200}, {2000000}, {0})
  \cup {m \in MapData(t, {300}, {200}, {2000000}, {10000})
                \cup MapData(t, {300}, {200}, {-1000000}, {0}) :
          m.speedLimitValid /\ m.speedLimitAheadValid}

CycleSnapshots(t) ==
  SnapshotsNoMap(CarLimits, {FALSE}) \cup SnapshotsMap({0}, {FALSE}, CycleMapData(t))

\* the arguments of update(): every snapshot with the system engaged at both speeds
\* and disengaged at one; the accelerator and both acceleration pairs with the
\* car_state limit of 20 m/s
CycleInputs(t) ==
  [enabled : {TRUE}, v_ego : VEgos, sm : CycleSnapshots(t),
   v_cruise_setpoint : CruiseSetpoints, acc_limits : {BaseAccLimits}]
  \cup
  [enabled : {FALSE}, v_ego : {300}, sm : CycleSnapshots(t),
   v_cruise_setpoint : CruiseSetpoints, acc_limits : {BaseAccLimits}]
  \cup
  [enabled : {TRUE}, v_ego : VEgos, sm : SnapshotsNoMap({200}, BOOLEAN),
   v_cruise_setpoint : CruiseSetpoints, acc_limits : AccLimits]

\* ------------------------------------------------------------ construction
\* SpeedLimitResolver.__init__
ResolverInit(pol) ==
  [limit_solutions |-> [s \in {} |-> 0],
   distance_solutions |-> [s \in {} |-> 0],
   v_ego |-> 0,
   current_speed_limit |-> 0,
   policy |-> pol,
   next_speed_limit_prev |-> 0,
   speed_limit |-> 0,
   distance |-> 0,
   source |-> none]

\* SpeedLimitController.__init__ (the resolver is the variable `resolver`)
ControllerInit(store) ==
  [last_params_update |-> 0,
   is_metric |-> store["IsMetric"],
   is_enabled |-> store["SpeedLimitControl"],
   delay_increase |-> store["SpeedLimitDelayIncrease"],
   offset_enabled |-> store["SpeedLimitPercOffset"],
   op_enabled |-> FALSE,
   acc_limits |-> <<0, 0>>,
   v_ego |-> 0,
   v_offset |-> 0,
   v_cruise_setpoint |-> 0,
   v_cruise_setpoint_prev |-> 0,
   v_cruise_setpoint_changed |-> FALSE,
   speed_limit_set |-> 0,
   speed_limit_set_prev |-> 0,
   speed_limit_set_change |-> 0,
   distance_set |-> 0,
   speed_limit |-> 0,
   speed_limit_prev |-> 0,
   speed_limit_changed |-> FALSE,
   distance |-> 0,
   source |-> none,
   last_speed_limit_set_change_ts |-> 0,
   state |-> inactive,
   state_prev |-> inactive,
   v_limit |-> <<>>]

NoCall == [kind |-> "none"]

\* a controller as constructed, with every flag of the store set; its resolver
\* has the default policy
Init ==
  /\ params = [k \in ParamKeys |-> TRUE]
  /\ resolver = ResolverInit(map_data_priority)
  /\ ctrl = ControllerInit(params)
  /\ now = 0
  /\ writes = 0
  /\ op = "init"
  /\ call = NoCall
  /\ events = <<>>

\* a resolver on its own, constructed with any policy
InitResolver ==
  /\ params = [k \in ParamKeys |-> TRUE]
  /\ \E pol \in Policy : resolver = ResolverInit(pol)
  /\ ctrl = ControllerInit(params)
  /\ now = 0
  /\ writes = 0
  /\ op = "init"
  /\ call = NoCall
  /\ events = <<>>

\* ------------------------------------------------------------ operations
\* the resolver after resolve(v_ego, current_speed_limit, sm) at time t
ResolverAfter(r, v_ego, current_speed_limit, sm, t) ==
  LET res == Resolve(r.policy, v_ego, current_speed_limit, sm,
                     r.next_speed_limit_prev, WallTimeMs(t))
  IN  [r EXCEPT !.v_ego = v_ego,
                !.current_speed_limit = current_speed_limit,
                !.limit_solutions = res.limit_solutions,
                !.distance_solutions = res.distance_solutions,
                !.next_speed_limit_prev = res.next_speed_limit_prev,
                !.speed_limit = res.speed_limit,
                !.distance = res.distance,
                !.source = res.source]

\* lines 402-407 of update(): the arguments and the resolver's result are stored
StoreInputs(c, r, enabled, v_ego, v_cruise_setpoint, acc_limits) ==
  [c EXCEPT !.op_enabled = enabled,
            !.v_ego = v_ego,
            !.speed_limit_set = r.speed_limit,
            !.distance_set = r.distance,
            !.source = r.source,
            !.v_cruise_setpoint = v_cruise_setpoint,
            !.acc_limits = acc_limits]

\* update(enabled, v_ego, sm, v_cruise_setpoint, acc_limits, events) at time t
ControllerAfter(c, r, store, t, enabled, v_ego, sm, v_cruise_setpoint, acc_limits) ==
  LET c1 == StoreInputs(c, r, enabled, v_ego, v_cruise_setpoint, acc_limits)
      c2 == UpdateParams(c1, t, store)
      c3 == UpdateCalculations(c2, t)
      c4 == StateTransition(c3)
  IN  UpdateSolution(c4, sm)

\* one control cycle: update() is called dt seconds after the previous call. The
\* call runs to completion within one unit of the clock, so _update_params and
\* _update_calculations read the same sec_since_boot()
Update(enabled, v_ego, sm, v_cruise_setpoint, acc_limits, dt) ==
  /\ now + dt <= MaxTime
  /\ \E r \in {ResolverAfter(resolver, v_ego, ctrl.speed_limit, sm, now + dt)} :
       \E c \in {ControllerAfter(ctrl, r, params, now + dt, enabled, v_ego, sm,
                                 v_cruise_setpoint, acc_limits)} :
         /\ now' = now + dt
         /\ resolver' = r
         /\ ctrl' = c
         /\ events' = UpdateEvents(c, <<>>)
         /\ call' = [kind |-> "update", time |-> now + dt, enabled |-> enabled,
                     v_ego |-> v_ego, sm |-> sm, v_cruise_setpoint |-> v_cruise_setpoint,
                     acc_limits |-> acc_limits]
         /\ op' = "update"
         /\ UNCHANGED <<params, writes>>

\* a caller assigns the public `state` property
SetState(value) ==
  /\ value # ctrl.state
  /\ ctrl' = StateSetter(ctrl, value)
  /\ op' = "set_state"
  /\ UNCHANGED <<resolver, params, now, writes, call, events>>

\* another process changes a key of the persistent store
WriteParam(key) ==
  /\ writes < MaxParamWrites
  /\ params' = [params EXCEPT ![key] = ~params[key]]
  /\ writes' = writes + 1
  /\ UNCHANGED <<resolver, ctrl, now, op, call, events>>

\* resolve() is called on a resolver on its own
ResolveCall(v_ego, current_speed_limit, sm) ==
  /\ resolver' = ResolverAfter(resolver, v_ego, current_speed_limit, sm, now)
  /\ call' = [kind |-> "resolve", time |-> now, v_ego |-> v_ego,
              current_speed_limit |-> current_speed_limit, sm |-> sm]
  /\ op' = "resolve"
  /\ UNCHANGED <<ctrl, params, now, writes, events>>

\* logMonoTime['liveMapData'] is None until the first message arrives: a snapshot
\* without map data does not follow one with map data
MapSeenBefore == call.kind # "none" /\ call.sm.mapSeen

UpdateStep ==
  \E dt \in CycleDts :
    \E i \in CycleInputs(now + dt) :
      /\ MapSeenBefore => i.sm.mapSeen
      /\ Update(i.enabled, i.v_ego, i.sm, i.v_cruise_setpoint, i.acc_limits, dt)

\* update() assigns every state but tempInactive, which only a caller assigns
SetStateStep == \E value \in {tempInactive} : SetState(value)

WriteParamStep == \E key \in ParamKeys : WriteParam(key)

ResolveStep ==
  \E v_ego \in ResolverVEgos, current_speed_limit \in ResolverCurrentLimits,
     sm \in ResolverSnapshots(now) :
    /\ MapSeenBefore => sm.mapSeen
    /\ ResolveCall(v_ego, current_speed_limit, sm)

Next == UpdateStep \/ SetStateStep \/ WriteParamStep

Spec == Init /\ [][Next]_vars

NextResolver == ResolveStep

SpecResolver == InitResolver /\ [][NextResolver]_vars

\* a controller driven by update() alone: no caller assigns the `state` property
NextUpdateOnly == UpdateStep \/ WriteParamStep

SpecUpdateOnly == Init /\ [][NextUpdateOnly]_vars

\* ------------------------------------------------------------ properties
\* a step that is a call of update()
IsUpdateStep ==
  /\ op' = "update"
  /\ <<resolver, ctrl, now, call, events>>' # <<resolver, ctrl, now, call, events>>

\* C1: whatever the state before an update(), if after that call's parameter
\* refresh and smoothing the feature is disabled, or the system is not engaged, or
\* the displayed limit is 0, the state after the call is inactive.
C1_ForcedInactive ==
  [][(IsUpdateStep /\ (~ctrl'.is_enabled \/ ~ctrl'.op_enabled \/ ctrl'.speed_limit = 0))
       => ctrl'.state = inactive]_vars

\* C1 happens: an update() found the controller in tempInactive with the system
\* engaged and a displayed limit, and the feature disabled, and left it inactive
C1_Witness ==
  /\ op = "update"
  /\ ctrl.state_prev = tempInactive
  /\ ctrl.op_enabled /\ ctrl.speed_limit # 0 /\ ~ctrl.is_enabled
  /\ ctrl.state = inactive

\* C2: in every update(): the cycle's time becomes the last-change time exactly
\* when the raw limit differs from the previous cycle's; a raw limit below the
\* displayed limit is displayed at the end of the cycle; a raw limit above a
\* nonzero displayed limit, with delay-increase enabled, leaves the displayed
\* limit as it was while the cycle's time is within 2.0 s of the last change; with
\* delay-increase disabled or a displayed limit of 0 the raw limit is displayed
\* at the end of the cycle.
C2_AsymmetricDebounce ==
  [][IsUpdateStep =>
       LET raw == ctrl'.speed_limit_set
           old == ctrl.speed_limit
           new == ctrl'.speed_limit
           changed_at == ctrl'.last_speed_limit_set_change_ts
       IN  /\ changed_at = IF raw # ctrl.speed_limit_set
                           THEN now' ELSE ctrl.last_speed_limit_set_change_ts
           /\ raw < old => new = raw
           /\ (/\ raw > old
               /\ old # 0
               /\ ctrl'.delay_increase
               /\ now' <= changed_at + WAIT_TIME_LIMIT_RISE) => new = old
           /\ (~ctrl'.delay_increase \/ old = 0) => new = raw]_vars

\* C2 happens: an increase is still held exactly 2.0 s after the raw limit changed
C2_Witness ==
  /\ op = "update"
  /\ ctrl.delay_increase
  /\ ctrl.speed_limit # 0
  /\ ctrl.speed_limit_set > ctrl.speed_limit
  /\ now = ctrl.last_speed_limit_set_change_ts + WAIT_TIME_LIMIT_RISE

\* C3: in an update() after which the system is engaged, the feature enabled and
\* the displayed limit nonzero, v_offset is the displayed limit with percent
\* offset minus the ego speed of the call, and: from inactive the state becomes
\* adapting if v_offset < -1.0 and active otherwise; from adapting it becomes
\* active iff v_offset >= -1.0 and else stays adapting; from active it becomes
\* adapting iff v_offset < -1.0 and else stays active.
C3_OffsetTransitions ==
  [][(IsUpdateStep /\ ctrl'.op_enabled /\ ctrl'.is_enabled /\ ctrl'.speed_limit # 0) =>
       LET below == ctrl'.v_offset < SPEED_OFFSET_TH
       IN  /\ ctrl'.v_offset = SpeedLimitOffseted(ctrl') - call'.v_ego * OffsetScale
           /\ ctrl.state \in {inactive, adapting, active}
                => ctrl'.state = IF below THEN adapting ELSE active]_vars

\* C3 happens: an adapting controller reaches an offset of exactly -1.0 m/s and
\* becomes active
C3_Witness ==
  /\ op = "update"
  /\ ctrl.op_enabled /\ ctrl.is_enabled /\ ctrl.speed_limit # 0
  /\ ctrl.state_prev = adapting
  /\ ctrl.v_offset = SPEED_OFFSET_TH
  /\ ctrl.state = active

\* C4: after an update() that leaves the state inactive or tempInactive, or in
\* which the accelerator is pressed, the v_limit accessor returns the cruise
\* setpoint of the call and the acc_limits accessor the (min, max) pair of the
\* call, both values as passed.
C4_PassThrough ==
  (op = "update" /\ (ctrl.state <= tempInactive \/ call.sm.carState.gasPressed)) =>
    /\ VLimit(ctrl) = call.v_cruise_setpoint * OffsetScale
    /\ ctrl.acc_limits = call.acc_limits

\* C4 happens: the accelerator is pressed in an update() that ends in adapting
\* with an upstream lower bound above the adapt rate
C4_Witness ==
  /\ op = "update"
  /\ call.sm.carState.gasPressed
  /\ ctrl.state = adapting
  /\ call.acc_limits[1] > LIMIT_ADAPT_ACC

\* C5: after an update() in which the accelerator is not pressed: in adapting the
\* target velocity is the displayed limit with offset and the acceleration bounds
\* are (min(upstream lower bound, -1.2), upstream upper bound); in active the
\* target velocity is the displayed limit with offset and the bounds are the
\* upstream pair.
C5_Solution ==
  (op = "update" /\ ~call.sm.carState.gasPressed) =>
    /\ ctrl.state = adapting =>
         /\ VLimit(ctrl) = SpeedLimitOffseted(ctrl)
         /\ ctrl.acc_limits = <<Min(call.acc_limits[1], LIMIT_ADAPT_ACC), call.acc_limits[2]>>
    /\ ctrl.state = active =>
         /\ VLimit(ctrl) = SpeedLimitOffseted(ctrl)
         /\ ctrl.acc_limits = call.acc_limits

\* C5 happens: an update() ends in adapting with an upstream lower bound below the
\* adapt rate, which is kept
C5_Witness ==
  /\ op = "update"
  /\ ~call.sm.carState.gasPressed
  /\ ctrl.state = adapting
  /\ call.acc_limits[1] < LIMIT_ADAPT_ACC
  /\ ctrl.acc_limits[1] = call.acc_limits[1]

\* C6: every update() adds at most one event, and none when it leaves the state
\* inactive or tempInactive; when it leaves the state adapting or active the event
\* is speedLimitActive if the state before the call was inactive or tempInactive,
\* else speedLimitIncrease if the raw limit is above the previous cycle's, else
\* speedLimitDecrease if it is below, else there is no event.
C6_Events ==
  [][IsUpdateStep =>
       /\ Len(events') <= 1
       /\ ctrl'.state <= tempInactive => events' = <<>>
       /\ ctrl'.state > tempInactive =>
            events' = IF ctrl.state <= tempInactive THEN <<"speedLimitActive">>
                      ELSE IF ctrl'.speed_limit_set > ctrl.speed_limit_set
                           THEN <<"speedLimitIncrease">>
                      ELSE IF ctrl'.speed_limit_set < ctrl.speed_limit_set
                           THEN <<"speedLimitDecrease">>
                      ELSE <<>>]_vars

\* C6 happens: an update() that finds the controller inactive while the raw limit
\* rises reports the activation, not the increase
C6_Witness ==
  /\ op = "update"
  /\ ctrl.state_prev = inactive
  /\ ctrl.speed_limit_set_change > 0
  /\ ctrl.speed_limit_set_change < ctrl.speed_limit_set
  /\ events = <<"speedLimitActive">>

\* the age, in ms, of the GPS fix of the last call's snapshot at the time of the call
CallFixAge == GpsFixAge(WallTimeMs(call.time), call.sm.liveMapData.lastGpsTimestamp)

\* the per-source candidates after the last resolve()
CarCandidate == Candidate(car_state, resolver.limit_solutions, resolver.distance_solutions)
MapCandidate == Candidate(map_data, resolver.limit_solutions, resolver.distance_solutions)

\* what the last resolve() returned
Resolved ==
  [speed_limit |-> resolver.speed_limit, distance |-> resolver.distance,
   source |-> resolver.source]

\* C7: after any resolve() whose map_data candidate is not the tracked ahead limit
\* (cycles without map data or with a fix older than 10.0 s included), the sticky
\* ahead-limit tracker is 0.
C7_TrackerResetUnlessConfirmed ==
  (op = "resolve" /\ MapCandidate.limit # resolver.next_speed_limit_prev)
    => resolver.next_speed_limit_prev = 0

\* C8: whenever the age of the GPS fix is greater than 10.0 s, the map_data
\* candidate produced by resolve() is (0, 0), whatever the limits, the validity
\* flags and the tracker are.
C8_StaleFixDiscarded ==
  (op = "resolve" /\ CallFixAge > MAX_MAP_DATA_AGE)
    => (MapCandidate.limit = 0 /\ MapCandidate.distance = 0)

\* C8 happens: a message with both limits valid, the ahead limit being the tracked
\* one, has a fix 10.001 s old and gives the candidate (0, 0)
C8_Witness ==
  /\ op = "resolve"
  /\ call.sm.mapSeen
  /\ CallFixAge > MAX_MAP_DATA_AGE
  /\ call.sm.liveMapData.speedLimitValid
  /\ call.sm.liveMapData.speedLimitAheadValid
  /\ call.v_ego > 0
  /\ call.sm.liveMapData.speedLimitAhead <= call.current_speed_limit
  /\ call.sm.liveMapData.speedLimitAhead = resolver.next_speed_limit_prev
  /\ MapCandidate.limit = 0

\* C9: for every policy, resolve() returns a source other than none only with a
\* value greater than 0 (and none only with the value 0), and when the car_state
\* and the map_data candidates are both 0 the result is (0, 0, none).
C9_ZeroNeverWins ==
  op = "resolve" =>
    /\ resolver.source # none <=> resolver.speed_limit > 0
    /\ resolver.source = none => Resolved = [speed_limit |-> 0, distance |-> 0, source |-> none]
    /\ (CarCandidate.limit = 0 /\ MapCandidate.limit = 0)
         => Resolved = [speed_limit |-> 0, distance |-> 0, source |-> none]

\* C9 happens: under the combined policy the car_state candidate is 0, the smallest
\* value, and the map_data candidate is returned
C9_Witness ==
  /\ op = "resolve"
  /\ resolver.policy = combined
  /\ CarCandidate.limit = 0
  /\ MapCandidate.limit > 0
  /\ resolver.source = map_data

\* C10: under the combined policy resolve() returns the smallest of the candidates
\* that are not 0, with the distance and the source of a candidate of that value;
\* with one candidate not 0 it returns that one, and with none (0, 0, none).
C10_CombinedMinimum ==
  (op = "resolve" /\ resolver.policy = combined) =>
    LET nonzero == {c \in {CarCandidate, MapCandidate} : c.limit > 0}
    IN  IF nonzero = {}
        THEN Resolved = [speed_limit |-> 0, distance |-> 0, source |-> none]
        ELSE \E c \in nonzero :
               /\ \A d \in nonzero : c.limit <= d.limit
               /\ Resolved = [speed_limit |-> c.limit, distance |-> c.distance,
                              source |-> c.source]

\* C10 happens: both candidates are not 0 and the map_data candidate, the smaller,
\* is returned with its distance
C10_Witness ==
  /\ op = "resolve"
  /\ resolver.policy = combined
  /\ CarCandidate.limit > MapCandidate.limit
  /\ MapCandidate.limit > 0
  /\ MapCandidate.distance > 0
  /\ Resolved = [speed_limit |-> MapCandidate.limit, distance |-> MapCandidate.distance,
                 source |-> map_data]

\* the candidates of the primary and of the secondary source of a priority policy
PrimaryCandidate ==
  IF resolver.policy = car_state_priority THEN CarCandidate ELSE MapCandidate
SecondaryCandidate ==
  IF resolver.policy = car_state_priority THEN MapCandidate ELSE CarCandidate

\* C11: under car_state_priority and map_data_priority, resolve() returns the
\* primary source's candidate (value, distance, source) whenever that candidate is
\* not 0, whatever the secondary source gives, and the secondary source's
\* candidate when the primary one is 0 and the secondary one is not.
C11_PriorityFallback ==
  (op = "resolve" /\ resolver.policy \in {car_state_priority, map_data_priority}) =>
    /\ PrimaryCandidate.limit # 0 =>
         Resolved = [speed_limit |-> PrimaryCandidate.limit,
                     distance |-> PrimaryCandidate.distance,
                     source |-> PrimaryCandidate.source]
    /\ (PrimaryCandidate.limit = 0 /\ SecondaryCandidate.limit # 0) =>
         Resolved = [speed_limit |-> SecondaryCandidate.limit,
                     distance |-> SecondaryCandidate.distance,
                     source |-> SecondaryCandidate.source]

\* C11 happens: map_data_priority, no map data, ego speed 30 m/s and a car_state
\* limit of 25 m/s resolve to (25, 0, car_state)
C11_Witness ==
  /\ op = "resolve"
  /\ resolver.policy = map_data_priority
  /\ ~call.sm.mapSeen
  /\ call.v_ego = 300
  /\ call.sm.carState.speedLimit = 250
  /\ Resolved = [speed_limit |-> 250, distance |-> 0, source |-> car_state]

\* C12: an update() that finds the controller in tempInactive and after which the
\* system is engaged, the feature enabled and the displayed limit nonzero leaves
\* the state inactive if the displayed limit after the call's smoothing differs
\* from the displayed limit the controller had since tempInactive was entered or
\* last held, and leaves it tempInactive otherwise.
C12_TempInactiveExit ==
  [][(/\ IsUpdateStep
      /\ ctrl.state = tempInactive
      /\ ctrl'.op_enabled /\ ctrl'.is_enabled /\ ctrl'.speed_limit # 0) =>
       ctrl'.state = IF ctrl'.speed_limit # ctrl.speed_limit
                     THEN inactive ELSE tempInactive]_vars

\* C12 happens: the raw limit rises while the controller is in tempInactive, the
\* increase is held and the state stays tempInactive
C12_Witness ==
  /\ op = "update"
  /\ ctrl.state_prev = tempInactive
  /\ ctrl.op_enabled /\ ctrl.is_enabled /\ ctrl.speed_limit # 0
  /\ ctrl.speed_limit_set_change > 0
  /\ ctrl.speed_limit < ctrl.speed_limit_set
  /\ ctrl.state = tempInactive

\* a step in which a caller assigns a new value to the `state` property
IsSetStateStep == op' = "set_state" /\ ctrl'.state # ctrl.state

\* C13: when the setter moves the controller into tempInactive from another state,
\* the displayed limit and distance become the raw set-value and set-distance and
\* the previous-displayed-limit tracker becomes that displayed limit; and the
\* update() that follows, if its raw limit is the same, detects no change of the
\* displayed limit and, with the system engaged, the feature enabled and the
\* displayed limit nonzero, leaves the state tempInactive.
C13_EntrySnap ==
  [][/\ (IsSetStateStep /\ ctrl'.state = tempInactive) =>
          /\ ctrl'.speed_limit = ctrl.speed_limit_set
          /\ ctrl'.distance = ctrl.distance_set
          /\ ctrl'.speed_limit_prev = ctrl'.speed_limit
     /\ (/\ IsUpdateStep
         /\ op = "set_state" /\ ctrl.state = tempInactive
         /\ ctrl'.speed_limit_set = ctrl.speed_limit_set) =>
          /\ ~ctrl'.speed_limit_changed
          /\ (ctrl'.op_enabled /\ ctrl'.is_enabled /\ ctrl'.speed_limit # 0)
               => ctrl'.state = tempInactive]_vars

\* C13 happens: the setter has moved the controller into tempInactive while an
\* increase of the limit was held; the displayed limit is the raw one, and v_offset
\* is still the one of the displayed limit of the last update()
C13_Witness ==
  /\ op = "set_state"
  /\ ctrl.state = tempInactive
  /\ ctrl.delay_increase
  /\ ctrl.speed_limit_set_change > 0
  /\ ctrl.speed_limit = ctrl.speed_limit_set
  /\ ctrl.speed_limit_prev = ctrl.speed_limit_set
  /\ ctrl.v_offset < SpeedLimitOffseted(ctrl) - ctrl.v_ego * OffsetScale

\* C14: in every update() at least 2.0 s after the last refresh of the parameters
\* the four flags (IsMetric, SpeedLimitControl, SpeedLimitDelayIncrease,
\* SpeedLimitPercOffset) are read again, so that each cached flag is the stored
\* value after the call; in an update() less than 2.0 s after it no flag changes.
C14_ConfigRefresh ==
  [][IsUpdateStep =>
       IF now' >= ctrl.last_params_update + PARAMS_UPDATE_PERIOD
       THEN /\ ctrl'.is_metric = params["IsMetric"]
            /\ ctrl'.is_enabled = params["SpeedLimitControl"]
            /\ ctrl'.delay_increase = params["SpeedLimitDelayIncrease"]
            /\ ctrl'.offset_enabled = params["SpeedLimitPercOffset"]
       ELSE /\ ctrl'.is_metric = ctrl.is_metric
            /\ ctrl'.is_enabled = ctrl.is_enabled
            /\ ctrl'.delay_increase = ctrl.delay_increase
            /\ ctrl'.offset_enabled = ctrl.offset_enabled]_vars

\* a step that is a call of resolve()
IsResolveStep == op' = "resolve" /\ <<resolver, call>>' # <<resolver, call>>

\* C15: in a resolve() with a fix not older than 10.0 s, a valid ahead limit that
\* is not the tracked one, ego speed > 0 and the ahead limit not above the
\* displayed limit, with corrected distance = max(0, raw distance - v_ego * fix
\* age), adapt_time = (ahead - v_ego) / -1.2 and adapt_distance = v_ego *
\* adapt_time + 0.5 * (-1.2) * adapt_time^2: if corrected distance <=
\* adapt_distance the map_data candidate is (ahead limit, corrected distance) and
\* the tracker becomes the ahead limit; otherwise the candidate is (current map
\* limit, 0) and the tracker is not the ahead limit.
\* With v and L in 0.1 m/s, adapt_time = (v - L) / 12 s and 240 * adapt_distance =
\* 2 * v * (v - L) - (v - L)^2 m; with d in 1e-4 m, d <= adapt_distance is
\* 3 * d <= 125 * (240 * adapt_distance).
C15_AdaptDistanceRule ==
  [][(/\ IsResolveStep
      /\ call'.sm.mapSeen
      /\ CallFixAge' <= MAX_MAP_DATA_AGE
      /\ call'.sm.liveMapData.speedLimitAheadValid
      /\ call'.sm.liveMapData.speedLimitAhead # 0
      /\ call'.sm.liveMapData.speedLimitAhead # resolver.next_speed_limit_prev
      /\ call'.v_ego > 0
      /\ call'.sm.liveMapData.speedLimitAhead <= call'.current_speed_limit) =>
       LET m == call'.sm.liveMapData
           v == call'.v_ego
           L == m.speedLimitAhead
           current == IF m.speedLimitValid THEN m.speedLimit ELSE 0
           corrected == Max(0, m.speedLimitAheadDistance - v * CallFixAge')
           adapt240 == 2 * v * (v - L) - (v - L) * (v - L)
       IN  IF 3 * corrected <= 125 * adapt240
           THEN /\ MapCandidate'.limit = L
                /\ MapCandidate'.distance = corrected
                /\ resolver'.next_speed_limit_prev = L
           ELSE /\ MapCandidate'.limit = current
                /\ MapCandidate'.distance = 0
                /\ resolver'.next_speed_limit_prev # L]_vars

\* C15 happens (Scenario B): ego speed 30 m/s, displayed and map limit 30 m/s, a
\* limit of 20 m/s ahead at 200 m with a fix of this instant resolve to
\* (20, 200 m, map_data) under the default policy, and 20 m/s is tracked
C15_Witness ==
  /\ op = "resolve"
  /\ resolver.policy = map_data_priority
  /\ call.v_ego = 300
  /\ call.current_speed_limit = 300
  /\ call.sm.mapSeen
  /\ CallFixAge = 0
  /\ call.sm.liveMapData.speedLimitValid /\ call.sm.liveMapData.speedLimit = 300
  /\ call.sm.liveMapData.speedLimitAheadValid /\ call.sm.liveMapData.speedLimitAhead = 200
  /\ call.sm.liveMapData.speedLimitAheadDistance = 2000000
  /\ Resolved = [speed_limit |-> 200, distance |-> 2000000, source |-> map_data]
  /\ resolver.next_speed_limit_prev = 200

\* C16: distances are never negative: in every state the distance returned by
\* resolve(), the distances of the two candidates, the raw distance the controller
\* stored and the distance of the controller's accessor are >= 0, whatever the
\* reported distance ahead is (less than v_ego * fix age, or negative).
C16_DistancesNotNegative ==
  /\ resolver.distance >= 0
  /\ \A src \in DOMAIN resolver.distance_solutions : resolver.distance_solutions[src] >= 0
  /\ ctrl.distance_set >= 0
  /\ ctrl.distance >= 0

\* C16 happens: an update() received a valid limit ahead at a distance smaller
\* than v_ego * fix age, resolved and displayed it, and its distance is 0
C16_Witness ==
  /\ op = "update"
  /\ call.sm.mapSeen
  /\ call.sm.liveMapData.speedLimitAheadValid
  /\ call.sm.liveMapData.speedLimitAheadDistance > 0
  /\ call.sm.liveMapData.speedLimitAheadDistance < call.v_ego * CallFixAge
  /\ resolver.source = map_data
  /\ resolver.speed_limit = call.sm.liveMapData.speedLimitAhead
  /\ resolver.distance = 0
  /\ ctrl.speed_limit = call.sm.liveMapData.speedLimitAhead
  /\ ctrl.distance = 0

\* C17: when the tracker holds an ahead limit L (a resolve() started reporting
\* it), every resolve() with a fix not older than 10.0 s, the valid ahead limit
\* still L, ego speed > 0 and L not above the displayed limit gives the map_data
\* candidate (L, max(0, raw distance - v_ego * fix age)) and leaves the tracker at
\* L, whatever the adaptation distance of that cycle is.
C17_StickyContinuation ==
  [][(/\ IsResolveStep
      /\ resolver.next_speed_limit_prev # 0
      /\ call'.sm.mapSeen
      /\ CallFixAge' <= MAX_MAP_DATA_AGE
      /\ call'.sm.liveMapData.speedLimitAheadValid
      /\ call'.sm.liveMapData.speedLimitAhead = resolver.next_speed_limit_prev
      /\ call'.v_ego > 0
      /\ call'.sm.liveMapData.speedLimitAhead <= call'.current_speed_limit) =>
       LET m == call'.sm.liveMapData
           corrected == Max(0, m.speedLimitAheadDistance - call'.v_ego * CallFixAge')
       IN  /\ MapCandidate'.limit = m.speedLimitAhead
           /\ MapCandidate'.distance = corrected
           /\ resolver'.next_speed_limit_prev = m.speedLimitAhead]_vars

\* C17 happens: the tracked limit of 20 m/s is reported at 300 m, further than the
\* adaptation distance from 30 m/s (208.33 m), which only a tracked limit can be
C17_Witness ==
  /\ op = "resolve"
  /\ call.sm.mapSeen
  /\ CallFixAge <= MAX_MAP_DATA_AGE
  /\ call.v_ego = 300
  /\ call.sm.liveMapData.speedLimitAheadValid
  /\ call.sm.liveMapData.speedLimitAhead = 200
  /\ resolver.next_speed_limit_prev = 200
  /\ MapCandidate.limit = 200
  /\ MapCandidate.distance = 3000000
  /\ ~CloseEnough(MapCandidate.distance, AdaptDistance(200, call.v_ego))

\* C18: for a controller driven from construction by update() alone, the state
\* after each update() depends on that cycle's values only: it is inactive iff the
\* system is not engaged or the feature is disabled or the displayed limit is 0;
\* otherwise it is adapting iff the displayed limit with offset minus the ego
\* speed is < -1.0 and active iff it is >= -1.0; so is_active holds iff the system
\* is engaged, the feature enabled and the displayed limit nonzero.
C18_StateFromCycle ==
  op = "update" =>
    LET off == ~call.enabled \/ ~ctrl.is_enabled \/ ctrl.speed_limit = 0
        v_offset == SpeedLimitOffseted(ctrl) - call.v_ego * OffsetScale
    IN  /\ ctrl.state = IF off THEN inactive
                        ELSE IF v_offset < SPEED_OFFSET_TH THEN adapting ELSE active
        /\ IsActive(ctrl) <=> (call.enabled /\ ctrl.is_enabled /\ ctrl.speed_limit # 0)

\* C18 happens: an update() finds the controller active and, the ego speed being
\* more than 1.0 m/s over the limit with offset, leaves it adapting
C18_Witness ==
  /\ op = "update"
  /\ call.enabled /\ ctrl.is_enabled /\ ctrl.speed_limit # 0
  /\ ctrl.state_prev = active
  /\ SpeedLimitOffseted(ctrl) - call.v_ego * OffsetScale < SPEED_OFFSET_TH
  /\ ctrl.state = adapting

\* C19: for a controller driven from construction by update() alone, the state is
\* never tempInactive, whatever the inputs of the calls are.
C19_NoTempInactiveByUpdate ==
  ctrl.state # tempInactive

\* C19 happens: an update() with a changed cruise setpoint, the system engaged, the
\* feature enabled and a displayed limit leaves the controller adapting or active
C19_Witness ==
  /\ op = "update"
  /\ ctrl.v_cruise_setpoint_changed
  /\ ctrl.op_enabled /\ ctrl.is_enabled /\ ctrl.speed_limit # 0
  /\ ctrl.state \in {adapting, active}

\* C20: with delay-increase enabled, in every update() whose raw limit L is the one
\* of the previous cycle: if L is above the displayed limit (an increase is held),
\* the displayed limit becomes L when the time of the call is more than 2.0 s after
\* the cycle in which the raw limit last changed and is left as it was before
\* that; and if the displayed limit is L already it stays L.
C20_HeldIncreaseApplied ==
  [][(/\ IsUpdateStep
      /\ ctrl'.delay_increase
      /\ ctrl'.speed_limit_set = ctrl.speed_limit_set) =>
       LET L == ctrl.speed_limit_set
           changed_at == ctrl.last_speed_limit_set_change_ts
       IN  /\ (L > ctrl.speed_limit /\ ctrl.speed_limit # 0) =>
                ctrl'.speed_limit = IF now' > changed_at + WAIT_TIME_LIMIT_RISE
                                    THEN L ELSE ctrl.speed_limit
           /\ ctrl.speed_limit = L => ctrl'.speed_limit = L]_vars

\* C20 happens: an update() more than 2.0 s after the last change of the raw limit
\* changes the displayed limit to the raw one, which this call did not change
C20_Witness ==
  /\ op = "update"
  /\ ctrl.delay_increase
  /\ ctrl.speed_limit_set_change = 0
  /\ ctrl.speed_limit_changed
  /\ ctrl.state_prev # tempInactive
  /\ ctrl.speed_limit = ctrl.speed_limit_set
  /\ ctrl.speed_limit # 0
  /\ now > ctrl.last_speed_limit_set_change_ts + WAIT_TIME_LIMIT_RISE

====
